---- MODULE Spec2Model ----
(***************************************************************************)
(* Model of layer/utils/grpc/channel.py (create_grpc_channel,              *)
(* create_grpc_ssl_config, _load_default_ssl_certs) and of the global      *)
(* context exercised by test/unit/test_global_context.py.                  *)
(*                                                                         *)
(* Python values are modelled as follows.                                  *)
(*   Optional[T]      None is <<>>, a present value x is <<x>>             *)
(*   str / int option values are tagged, <<"str", s>> and <<"int", n>>     *)
(*   a str holding text is a sequence of tokens, "\n" being one token      *)
(*   bytes            [bytes |-> the encoded str]                          *)
(*   list objects     live in heap, a function from references to          *)
(*                    sequences, so that aliasing is observable            *)
(*   a call's result  [ok |-> TRUE, ...] or [ok |-> FALSE, exc |-> class]  *)
(* Durations are in tenths of a second (ds).                               *)
(***************************************************************************)
EXTENDS Integers, Sequences, FiniteSets, TLC

VARIABLES
    heap,        \* list objects reachable by the caller: ref -> entries
    chan,        \* the latest create_grpc_channel call and what it returned
    trustStore,  \* DER certificates loaded in the platform's default context
    sslResult,   \* the latest direct create_grpc_ssl_config call
    rpc,         \* the call in flight on the channel handle
    logFile,     \* records appended at logs_file_path
    ctx,         \* the global context
    lastOp       \* the latest global-context operation and the state before it

vars == <<heap, chan, trustStore, sslResult, rpc, logFile, ctx, lastOp>>

----------------------------------------------------------------------------
(* Bounds of the model *)

MaxOptions == 2
MaxStoreCerts == 2
MaxRpcs == 2

----------------------------------------------------------------------------
(* Python values *)

None == <<>>

Some(x) == <<x>>

IntV(n) == <<"int", n>>

StrV(s) == <<"str", s>>

\* `if x:` on an Optional[str]: None and the empty string are both falsy
Truthy(opt) == opt # None /\ opt[1] # ""

Raise(e) == [ok |-> FALSE, exc |-> e]

\* str.encode()
Encode(s) == [bytes |-> s]

NL == "\n"

\* sep.join(parts) for strs
RECURSIVE Join(_, _)
Join(sep, parts) ==
    IF Len(parts) = 0 THEN <<>>
    ELSE IF Len(parts) = 1 THEN parts[1]
    ELSE parts[1] \o <<sep>> \o Join(sep, Tail(parts))

\* "".join(parts)
RECURSIVE Flatten(_)
Flatten(parts) ==
    IF Len(parts) = 0 THEN <<>> ELSE parts[1] \o Flatten(Tail(parts))

\* the exception classes that reach the caller, with their base class
ExcParent ==
    [ ConnectionRefusedError |-> "ConnectionError",
      ConnectionError        |-> "OSError",
      gaierror               |-> "OSError",
      SSLError               |-> "OSError",
      TimeoutError           |-> "OSError",
      OSError                |-> "Exception",
      ValueError             |-> "Exception",
      ExtensionNotFound      |-> "Exception",
      IndexError             |-> "LookupError",
      LookupError            |-> "Exception",
      Exception              |-> "Exception" ]

RECURSIVE IsInstance(_, _)
IsInstance(e, cls) ==
    IF e = cls THEN TRUE
    ELSE IF e = "Exception" THEN FALSE
    ELSE IsInstance(ExcParent[e], cls)

----------------------------------------------------------------------------
(* Certificates *)

LeafDers == {"leafA", "leafB", "leafC", "leafD", "leafE", "leafF"}

CaDers == {"ca1", "ca2"}

\* what cryptography makes of each DER blob
CertTable ==
    [ leafA |-> [parses |-> TRUE,
                 san |-> Some(<< <<"DNS", "a.example">>, <<"DNS", "b.example">> >>)],
      leafB |-> [parses |-> TRUE,
                 san |-> Some(<< <<"IP", "10.0.0.1">>, <<"DNS", "pinned.local">> >>)],
      leafC |-> [parses |-> TRUE, san |-> Some(<< <<"IP", "10.0.0.1">> >>)],
      leafD |-> [parses |-> TRUE, san |-> None],
      leafE |-> [parses |-> FALSE, san |-> None],
      leafF |-> [parses |-> TRUE, san |-> Some(<< <<"DNS", "">> >>)],
      ca1   |-> [parses |-> TRUE, san |-> None],
      ca2   |-> [parses |-> TRUE, san |-> None] ]

B64Table ==
    { <<"leafA", "bGVhZkE=">>, <<"leafB", "bGVhZkI=">>, <<"leafC", "bGVhZkM=">>,
      <<"leafD", "bGVhZkQ=">>, <<"leafE", "bGVhZkU=">>, <<"leafF", "bGVhZkY=">>,
      <<"ca1", "Y2Ex">>, <<"ca2", "Y2Ey">> }

B64Encode(der) == (CHOOSE p \in B64Table : p[1] = der)[2]

B64Decode(txt) == (CHOOSE p \in B64Table : p[2] = txt)[1]

PemHeader == "-----BEGIN CERTIFICATE-----"

PemFooter == "-----END CERTIFICATE-----"

\* ssl.DER_cert_to_PEM_cert
DER_cert_to_PEM_cert(der) ==
    <<PemHeader, NL, B64Encode(der), NL, PemFooter, NL>>

\* x509.load_pem_x509_certificate
load_pem_x509_certificate(data) ==
    LET txt == data.bytes
        der == B64Decode(txt[3])
    IN  IF CertTable[der].parses
        THEN [ok |-> TRUE, cert |-> CertTable[der]]
        ELSE Raise("ValueError")

\* cert.extensions.get_extension_for_oid(SUBJECT_ALTERNATIVE_NAME)
get_extension_for_oid(cert) ==
    IF cert.san = None THEN Raise("ExtensionNotFound")
    ELSE [ok |-> TRUE, value |-> cert.san[1]]

\* SubjectAlternativeName.get_values_for_type(x509.DNSName)
get_values_for_type(names) ==
    LET dns == SelectSeq(names, LAMBDA n : n[1] = "DNS")
    IN  [i \in 1..Len(dns) |-> dns[i][2]]

FirstItemOrEmpty(list) ==
    IF Len(list) = 0 THEN [ok |-> TRUE, value |-> ""]
    ELSE [ok |-> TRUE, value |-> list[1]]

\* list[0]
FirstItem(list) ==
    IF Len(list) = 0 THEN Raise("IndexError")
    ELSE [ok |-> TRUE, value |-> list[1]]

----------------------------------------------------------------------------
(* The network and the address *)

\* what a TLS handshake with the endpoint yields: a failure, or the DER of
\* the leaf certificate the server presents
NetFailures == {"refused", "nxdomain", "handshake_failure", "timeout"}

NetOutcomes == NetFailures \cup LeafDers

Addresses == {"example.com:443", "example.com", "example.com:https"}

\* address.split(":", 1)
SplitAddress(address) ==
    CASE address = "example.com:443"   -> <<"example.com", "443">>
      [] address = "example.com:https" -> <<"example.com", "https">>
      [] OTHER                         -> <<address>>

\* int(port)
IsIntLiteral(s) == s \in {"443"}

\* ssl.get_server_certificate((host, port))
get_server_certificate(net) ==
    CASE net = "refused"           -> Raise("ConnectionRefusedError")
      [] net = "nxdomain"          -> Raise("gaierror")
      [] net = "handshake_failure" -> Raise("SSLError")
      [] net = "timeout"           -> Raise("TimeoutError")
      [] OTHER -> [ok |-> TRUE, pem |-> DER_cert_to_PEM_cert(net)]

----------------------------------------------------------------------------
(* create_grpc_ssl_config and _load_default_ssl_certs *)

GRPCSSLConfig(cadata, hostname_override) ==
    [cadata |-> cadata, hostname_override |-> hostname_override]

_load_default_ssl_certs_unseparated(store) ==
    LET pem_certs == [i \in 1..Len(store) |-> DER_cert_to_PEM_cert(store[i])]
    IN  Encode(Flatten(pem_certs))

_load_default_ssl_certs(store) ==
    LET pem_certs == [i \in 1..Len(store) |-> DER_cert_to_PEM_cert(store[i])]
    IN  Encode(Join(NL, pem_certs))

\* The result also counts the handshakes made (fetches) and says whether the
\* address was split (parsed).
TrustOk(cfg, fetches, parsed) ==
    [ok |-> TRUE, cfg |-> cfg, fetches |-> fetches, parsed |-> parsed]

TrustRaise(e, fetches, parsed) ==
    [ok |-> FALSE, exc |-> e, fetches |-> fetches, parsed |-> parsed]

\* lines 109-115: the do_verify_ssl=False path
PinLeafCertificate(address, net) ==
    LET parts == SplitAddress(address)
    IN  IF Len(parts) # 2 \/ ~IsIntLiteral(parts[Len(parts)])
        THEN TrustRaise("ValueError", 0, TRUE)
        ELSE
        LET got == get_server_certificate(net)
        IN  IF ~got.ok THEN TrustRaise(got.exc, 1, TRUE)
            ELSE
            LET cadata == Encode(got.pem)
                cert   == load_pem_x509_certificate(cadata)
            IN  IF ~cert.ok THEN TrustRaise(cert.exc, 1, TRUE)
                ELSE
                LET ext == get_extension_for_oid(cert.cert)
                IN  IF ~ext.ok THEN TrustRaise(ext.exc, 1, TRUE)
                    ELSE
                    LET first == FirstItem(get_values_for_type(ext.value))
                    IN  IF ~first.ok THEN TrustRaise(first.exc, 1, TRUE)
                        ELSE TrustOk(GRPCSSLConfig(Some(cadata), Some(first.value)),
                                     1, TRUE)

create_grpc_ssl_config_inverted(address, do_verify_ssl, do_force_cadata_load, net, store) ==
    IF ~do_verify_ssl
    THEN TrustOk(GRPCSSLConfig(IF do_force_cadata_load
                               THEN Some(_load_default_ssl_certs(store))
                               ELSE None,
                               None),
                 0, FALSE)
    ELSE PinLeafCertificate(address, net)

create_grpc_ssl_config(address, do_verify_ssl, do_force_cadata_load, net, store) ==
    IF do_verify_ssl
    THEN TrustOk(GRPCSSLConfig(IF do_force_cadata_load
                               THEN Some(_load_default_ssl_certs(store))
                               ELSE None,
                               None),
                 0, FALSE)
    ELSE PinLeafCertificate(address, net)

----------------------------------------------------------------------------
(* create_grpc_channel *)

CallerRef == "caller_list"

FreshRef == "list_line_28"

CopyRef == "list_line_29"

ListCopyAlias(h, r) == [heap |-> h, ref |-> r]

\* list.copy(): a new list object with the same entries
ListCopy(h, r) == [heap |-> (CopyRef :> h[r]) @@ h, ref |-> CopyRef]

\* list.append(): changes the object in place
ListAppend(h, r, e) == [h EXCEPT ![r] = Append(@, e)]

RECURSIVE ListAppendAll(_, _, _)
ListAppendAll(h, r, es) ==
    IF Len(es) = 0 THEN h
    ELSE ListAppendAll(ListAppend(h, r, es[1]), r, Tail(es))

\* lines 37-52: the document handed to json.dumps
RetryPolicy ==
    [ maxAttempts          |-> 5,
      initialBackoff       |-> "0.3s",
      maxBackoff           |-> "30s",
      backoffMultiplier    |-> 3,
      retryableStatusCodes |-> <<"UNAVAILABLE">> ]

ServiceConfig ==
    [methodConfig |-> << [name |-> << [x \in {} |-> x] >>, retryPolicy |-> RetryPolicy] >>]

\* json.dumps / json.loads: the text is kept as the document it denotes
JsonDumps(doc) == <<"json", doc>>

JsonLoads(txt) == txt[2]

FixedOptionsWithoutPings ==
    << <<"grpc.enable_retries", IntV(1)>>,
       <<"grpc.service_config", JsonDumps(ServiceConfig)>>,
       <<"grpc.keepalive_time_ms", IntV(60000)>>,
       <<"grpc.keepalive_timeout_ms", IntV(5000)>>,
       <<"grpc.keepalive_permit_without_calls", IntV(1)>> >>

\* lines 53-58
FixedOptions ==
    << <<"grpc.enable_retries", IntV(1)>>,
       <<"grpc.service_config", JsonDumps(ServiceConfig)>>,
       <<"grpc.keepalive_time_ms", IntV(60000)>>,
       <<"grpc.keepalive_timeout_ms", IntV(5000)>>,
       <<"grpc.keepalive_permit_without_calls", IntV(1)>>,
       <<"grpc.http2.max_pings_without_data", IntV(0)>> >>

\* lines 31-32
OverrideOptions(ssl_config) ==
    IF Truthy(ssl_config.hostname_override)
    THEN << <<"grpc.ssl_target_name_override", StrV(ssl_config.hostname_override[1])>> >>
    ELSE <<>>

client_interceptors_log_outside(logs_file_path) ==
    << [kind |-> "RequestIdInterceptor"],
       [kind |-> "TrackingClientInterceptor"],
       [kind |-> "LogRpcCallsInterceptor", path |-> logs_file_path],
       [kind |-> "GRPCErrorClientInterceptor"] >>

\* lines 61-66
client_interceptors(logs_file_path) ==
    << [kind |-> "RequestIdInterceptor"],
       [kind |-> "TrackingClientInterceptor"],
       [kind |-> "GRPCErrorClientInterceptor"],
       [kind |-> "LogRpcCallsInterceptor", path |-> logs_file_path] >>

\* grpc.secure_channel: no connection is made here, the transport connects on
\* the first call; it reads the options it is given
secure_channel(address, credentials, options) ==
    [target |-> address, credentials |-> credentials, options |-> options]

\* grpc.intercept_channel(channel, *interceptors): the first interceptor is
\* the outermost
intercept_channel(channel, interceptors) ==
    [channel |-> channel, interceptors |-> interceptors]

\* The objects the caller can still reach once the call is over
CallerHeap(h) == [r \in {CallerRef} |-> h[r]]

\* optionsArg is None or Some(reference to the caller's list).  The result
\* holds the heap after the call, the handle or the exception, and what the
\* call did on the way.
create_grpc_channel(h, address, access_token, do_verify_ssl, logs_file_path, optionsArg, net, store) ==
    LET h1 == IF optionsArg = None THEN (FreshRef :> <<>>) @@ h ELSE h
        r1 == IF optionsArg = None THEN FreshRef ELSE optionsArg[1]
        cp == ListCopy(h1, r1)
        base == h1[r1]
        ssl_config == create_grpc_ssl_config(address, do_verify_ssl, FALSE, net, store)
    IN  IF ~ssl_config.ok
        THEN [ ok |-> FALSE, exc |-> ssl_config.exc, heap |-> cp.heap,
               base |-> base, trust |-> ssl_config,
               handle |-> None, opened |-> None ]
        ELSE
        LET h2 == ListAppendAll(cp.heap, cp.ref, OverrideOptions(ssl_config.cfg))
            h3 == ListAppendAll(h2, cp.ref, FixedOptions)
            credentials ==
                [ channel_credentials |-> [root_certificates |-> ssl_config.cfg.cadata],
                  call_credentials    |-> [access_token |-> access_token] ]
            channel == secure_channel(address, credentials, h3[cp.ref])
        IN  [ ok |-> TRUE, exc |-> "", heap |-> h3,
              base |-> base, trust |-> ssl_config,
              handle |-> Some(intercept_channel(channel,
                                                client_interceptors(logs_file_path))),
              opened |-> Some(channel) ]

----------------------------------------------------------------------------
(* State machine of channel construction *)

CallerEntries ==
    { <<"grpc.enable_retries", IntV(0)>>,
      <<"grpc.ssl_target_name_override", StrV("caller.example")>> }

NoChan ==
    [ state |-> "none", address |-> "", do_verify_ssl |-> TRUE, optionsArg |-> None,
      net |-> "refused", callerBefore |-> <<>>, callerAfter |-> <<>>,
      ok |-> FALSE, exc |-> "", base |-> <<>>,
      trust |-> TrustRaise("", 0, FALSE), handle |-> None, opened |-> None ]

NoSslResult ==
    [ state |-> "none", address |-> "", do_verify_ssl |-> TRUE,
      do_force_cadata_load |-> FALSE, net |-> "refused", store |-> <<>>,
      result |-> TrustRaise("", 0, FALSE) ]

IdleRpc ==
    [ phase |-> "idle", attempt |-> 0, elapsed |-> 0, raw |-> "",
      logged |-> None, seen |-> "", tracked |-> "" ]

EmptyCtx ==
    [ project_name |-> None, default_fabric |-> None, pip_packages |-> None,
      pip_requirements_file |-> None, active_context |-> None ]

NoOp == [op |-> "none", arg |-> None, before |-> EmptyCtx]

Init ==
    /\ heap = [r \in {CallerRef} |-> <<>>]
    /\ chan = NoChan
    /\ trustStore = <<>>
    /\ sslResult = NoSslResult
    /\ rpc = IdleRpc
    /\ logFile = <<>>
    /\ ctx = EmptyCtx
    /\ lastOp = NoOp

\* what is kept of a create_grpc_channel call: its arguments, the endpoint it
\* met, the caller's list before and after, and its result
ChanRecord(h, address, do_verify_ssl, optionsArg, net, res) ==
    [ state |-> "returned", address |-> address,
      do_verify_ssl |-> do_verify_ssl, optionsArg |-> optionsArg,
      net |-> net, callerBefore |-> h[CallerRef],
      callerAfter |-> res.heap[CallerRef],
      ok |-> res.ok, exc |-> res.exc, base |-> res.base,
      trust |-> res.trust, handle |-> res.handle,
      opened |-> res.opened ]

\* the caller puts one more entry into its own options list
CallerAppend ==
    /\ Len(heap[CallerRef]) < MaxOptions
    /\ \E e \in CallerEntries : heap' = ListAppend(heap, CallerRef, e)
    /\ UNCHANGED <<chan, trustStore, sslResult, rpc, logFile, ctx, lastOp>>

CreateChannel ==
    /\ \E address \in Addresses, do_verify_ssl \in BOOLEAN,
          optionsArg \in {None, Some(CallerRef)}, net \in NetOutcomes :
          LET res == create_grpc_channel(heap, address, "token123", do_verify_ssl,
                                         "/tmp/log", optionsArg, net, trustStore)
          IN  /\ heap' = CallerHeap(res.heap)
              /\ chan' = ChanRecord(heap, address, do_verify_ssl, optionsArg, net, res)
    /\ rpc' = IdleRpc
    /\ UNCHANGED <<trustStore, sslResult, logFile, ctx, lastOp>>

Next == CallerAppend \/ CreateChannel

Spec == Init /\ [][Next]_vars

----------------------------------------------------------------------------
(* State machine of direct trust resolution *)

\* the platform's default context has one more CA certificate loaded
LoadCaCert ==
    /\ Len(trustStore) < MaxStoreCerts
    /\ \E der \in CaDers : trustStore' = Append(trustStore, der)
    /\ UNCHANGED <<heap, chan, sslResult, rpc, logFile, ctx, lastOp>>

ResolveTrust ==
    /\ \E address \in Addresses, do_verify_ssl \in BOOLEAN,
          do_force_cadata_load \in BOOLEAN, net \in NetOutcomes :
          sslResult' =
              [ state |-> "returned", address |-> address,
                do_verify_ssl |-> do_verify_ssl,
                do_force_cadata_load |-> do_force_cadata_load,
                net |-> net, store |-> trustStore,
                result |-> create_grpc_ssl_config(address, do_verify_ssl,
                                                  do_force_cadata_load, net,
                                                  trustStore) ]
    /\ UNCHANGED <<heap, chan, trustStore, rpc, logFile, ctx, lastOp>>

NextTrust == LoadCaCert \/ ResolveTrust

SpecTrust == Init /\ [][NextTrust]_vars

----------------------------------------------------------------------------
(* A call on the handle: the transport's retries and the interceptors *)

\* the transport reads the last entry given for a key
RECURSIVE LastOption(_, _)
LastOption(options, key) ==
    IF Len(options) = 0 THEN None
    ELSE IF options[Len(options)][1] = key THEN Some(options[Len(options)][2])
    ELSE LastOption(SubSeq(options, 1, Len(options) - 1), key)

\* a duration of the service config, in tenths of a second
ParseDuration(s) ==
    CASE s = "0.3s" -> 3
      [] s = "30s"  -> 300

RECURSIVE Pow(_, _)
Pow(b, n) == IF n = 0 THEN 1 ELSE b * Pow(b, n - 1)

Min(a, b) == IF a <= b THEN a ELSE b

ChannelRetryPolicy(channel) ==
    JsonLoads(LastOption(channel.options, "grpc.service_config")[1])
        .methodConfig[1].retryPolicy

RetriesEnabled(channel) ==
    LastOption(channel.options, "grpc.enable_retries") = Some(IntV(1))

\* the wait before the retry that follows attempt n:
\* min(initialBackoff * backoffMultiplier^(n-1), maxBackoff)
\* This is the nominal wait the comment at lines 35-36 reasons about; the
\* transport's jitter only draws the actual wait around or below it.
Backoff(policy, n) ==
    Min(ParseDuration(policy.initialBackoff) * Pow(policy.backoffMultiplier, n - 1),
        ParseDuration(policy.maxBackoff))

IsRetryable(policy, status) ==
    \E i \in 1..Len(policy.retryableStatusCodes) : policy.retryableStatusCodes[i] = status

Statuses == {"OK", "UNAVAILABLE", "INTERNAL"}

\* GRPCErrorClientInterceptor: a failed status becomes the domain error
Normalize(outcome) ==
    CASE outcome = "OK"          -> "OK"
      [] outcome = "UNAVAILABLE" -> "UnavailableError"
      [] OTHER                   -> "CallError"

\* what an interceptor does with the outcome its continuation hands back
Intercept(ic, st) ==
    CASE ic.kind = "LogRpcCallsInterceptor" ->
             [st EXCEPT !.logged = Some([path |-> ic.path, outcome |-> st.outcome])]
      [] ic.kind = "GRPCErrorClientInterceptor" ->
             [st EXCEPT !.outcome = Normalize(@)]
      [] ic.kind = "TrackingClientInterceptor" ->
             [st EXCEPT !.tracked = st.outcome]
      [] OTHER -> st

\* the outcome travels from the wire through interceptor i, then i-1, ... 1
RECURSIVE Unwind(_, _, _)
Unwind(ics, i, st) ==
    IF i = 0 THEN st ELSE Unwind(ics, i - 1, Intercept(ics[i], st))

StartCall ==
    /\ chan.handle # None
    /\ rpc.phase = "idle"
    /\ Len(logFile) < MaxRpcs
    /\ rpc' = [IdleRpc EXCEPT !.phase = "attempting", !.attempt = 1]
    /\ UNCHANGED <<heap, chan, trustStore, sslResult, logFile, ctx, lastOp>>

\* an attempt fails with a retryable status and the transport schedules the
\* next one after the backoff
RetryAttempt ==
    /\ rpc.phase = "attempting"
    /\ LET channel == chan.handle[1].channel
           policy  == ChannelRetryPolicy(channel)
       IN  /\ RetriesEnabled(channel)
           /\ rpc.attempt < policy.maxAttempts
           /\ \E status \in Statuses :
                  /\ IsRetryable(policy, status)
                  /\ rpc' = [rpc EXCEPT !.attempt = @ + 1,
                                        !.elapsed = @ + Backoff(policy, rpc.attempt)]
    /\ UNCHANGED <<heap, chan, trustStore, sslResult, logFile, ctx, lastOp>>

\* the transport hands its final status to the interceptors
CompleteCall ==
    /\ rpc.phase = "attempting"
    /\ LET channel == chan.handle[1].channel
           policy  == ChannelRetryPolicy(channel)
           ics     == chan.handle[1].interceptors
       IN  \E status \in Statuses :
               /\ ~(/\ RetriesEnabled(channel)
                    /\ IsRetryable(policy, status)
                    /\ rpc.attempt < policy.maxAttempts)
               /\ LET st == Unwind(ics, Len(ics),
                                   [outcome |-> status, logged |-> None, tracked |-> ""])
                  IN  /\ rpc' = [rpc EXCEPT !.phase = "done", !.raw = status,
                                            !.logged = st.logged,
                                            !.seen = st.outcome,
                                            !.tracked = st.tracked]
                      /\ logFile' = IF st.logged = None THEN logFile
                                    ELSE Append(logFile, st.logged[1])
    /\ UNCHANGED <<heap, chan, trustStore, sslResult, ctx, lastOp>>

ReturnToCaller ==
    /\ rpc.phase = "done"
    /\ rpc' = IdleRpc
    /\ UNCHANGED <<heap, chan, trustStore, sslResult, logFile, ctx, lastOp>>

\* a handle has been built
InitCall ==
    /\ \E do_verify_ssl \in BOOLEAN, net \in {"leafA", "leafF", "timeout"} :
          LET h   == [r \in {CallerRef} |-> <<>>]
              res == create_grpc_channel(h, "example.com:443", "token123",
                                         do_verify_ssl, "/tmp/log", None, net, <<>>)
          IN  /\ res.ok
              /\ heap = CallerHeap(res.heap)
              /\ chan = ChanRecord(h, "example.com:443", do_verify_ssl, None, net, res)
    /\ trustStore = <<>>
    /\ sslResult = NoSslResult
    /\ rpc = IdleRpc
    /\ logFile = <<>>
    /\ ctx = EmptyCtx
    /\ lastOp = NoOp

NextCall == StartCall \/ RetryAttempt \/ CompleteCall \/ ReturnToCaller

SpecCall == InitCall /\ [][NextCall]_vars

----------------------------------------------------------------------------
(* The global context *)

ProjectNames == {"test", "second-test"}

Fabrics == {"F_SMALL", "F_MEDIUM"}

RequirementsFiles == {"/path/to/requirements.txt", "/path/to/requirements2.txt"}

PipPackages == {<<"numpy=1.22.1">>, <<"numpy=1.22.2">>}

Contexts == {"Context()"}

SetField(op, field, value) ==
    /\ ctx' = [ctx EXCEPT ![field] = Some(value)]
    /\ lastOp' = [op |-> op, arg |-> Some(value), before |-> ctx]
    /\ UNCHANGED <<heap, chan, trustStore, sslResult, rpc, logFile>>

set_current_project_name == \E name \in ProjectNames :
    SetField("set_current_project_name", "project_name", name)

set_default_fabric == \E fabric \in Fabrics :
    SetField("set_default_fabric", "default_fabric", fabric)

set_pip_requirements_file == \E path \in RequirementsFiles :
    SetField("set_pip_requirements_file", "pip_requirements_file", path)

set_pip_packages == \E packages \in PipPackages :
    SetField("set_pip_packages", "pip_packages", packages)

set_active_context == \E context \in Contexts :
    SetField("set_active_context", "active_context", context)

ResetAlways(c, name) == [EmptyCtx EXCEPT !.project_name = Some(name)]

\* the context reset_to(name) leaves
ResetTo(c, name) ==
    IF c.project_name # Some(name)
    THEN [EmptyCtx EXCEPT !.project_name = Some(name)]
    ELSE c

reset_to ==
    /\ \E name \in ProjectNames :
          /\ ctx' = ResetTo(ctx, name)
          /\ lastOp' = [op |-> "reset_to", arg |-> Some(name), before |-> ctx]
    /\ UNCHANGED <<heap, chan, trustStore, sslResult, rpc, logFile>>

NextCtx ==
    \/ set_current_project_name
    \/ set_default_fabric
    \/ set_pip_requirements_file
    \/ set_pip_packages
    \/ set_active_context
    \/ reset_to

SpecCtx == Init /\ [][NextCtx]_vars

----------------------------------------------------------------------------
(* What the latest create_grpc_channel call was given and what it did *)

Returned == chan.state = "returned"

\* the option list the transport received
Handed == chan.opened[1].options

\* the caller's options as they were when the call was made
CallerBase == IF chan.optionsArg = None THEN <<>> ELSE chan.callerBefore

OverrideKey == "grpc.ssl_target_name_override"

\* the first DNS-type entry of the SAN extension of a leaf certificate
FirstDnsSan(der) ==
    LET san == CertTable[der].san[1]
        at  == CHOOSE i \in 1..Len(san) :
                   /\ san[i][1] = "DNS"
                   /\ \A j \in 1..(i - 1) : san[j][1] # "DNS"
    IN  san[at][2]

HasDnsSan(der) ==
    /\ CertTable[der].parses
    /\ CertTable[der].san # None
    /\ \E i \in 1..Len(CertTable[der].san[1]) : CertTable[der].san[1][i][1] = "DNS"

WellFormed(address) == address = "example.com:443"

----------------------------------------------------------------------------
(* C3 *)

\* C3 as stated: the list handed to the transport is the caller's options
\* plus exactly 4 fixed entries plus 0 or 1 hostname-override entry.
C3_FourFixedEntries ==
    (Returned /\ chan.ok) =>
        Len(Handed) \in {Len(CallerBase) + 4, Len(CallerBase) + 5}

\* C3 amended: the list handed to the transport is the caller's options plus
\* exactly 6 fixed entries plus 0 or 1 hostname-override entry, so its length
\* is len(options)+6 or len(options)+7 (len(options) being 0 for None).
C3_SixFixedEntries ==
    (Returned /\ chan.ok) =>
        LET added == Len(Handed) - Len(CallerBase)
            first == Handed[Len(CallerBase) + 1]
        IN  /\ added \in {6, 7}
            /\ added = 7 <=> first[1] = OverrideKey
            /\ \A i \in (Len(Handed) - 5)..Len(Handed) : Handed[i][1] # OverrideKey

C3_Witness ==
    /\ Returned /\ chan.ok
    /\ Len(CallerBase) = 2
    /\ Len(Handed) = 9
    /\ Handed[3][1] = OverrideKey

----------------------------------------------------------------------------
(* C4 *)

\* C4: a create_grpc_channel call, whether it returns a handle or raises,
\* leaves the caller's options list with the same entries in the same order,
\* and the base options the call works from are the entries of that list, so
\* that a second call with the same list sees the same base options.
C4_CallerListUntouched ==
    Returned =>
        /\ chan.callerAfter = chan.callerBefore
        /\ chan.optionsArg # None => chan.base = chan.callerAfter

C4_Witness ==
    /\ Returned /\ chan.ok
    /\ chan.optionsArg = Some(CallerRef)
    /\ Len(chan.callerBefore) = 2
    /\ chan.callerAfter = chan.callerBefore
    /\ heap[CallerRef] = chan.callerBefore
    /\ Len(Handed) > Len(heap[CallerRef])

----------------------------------------------------------------------------
(* C5 *)

\* C5 as stated: with do_verify_ssl=False against an endpoint that presents
\* a certificate with a DNS SAN, hostname_override is the first DNS SAN of
\* the fetched certificate, cadata is that certificate's PEM encoding, both
\* come from a single fetch, the TLS credentials are built from that cadata
\* and the target-name override option is set to that SAN.
C5_PinnedLeafAndOverride ==
    (Returned /\ ~chan.do_verify_ssl /\ WellFormed(chan.address)
        /\ chan.net \in LeafDers /\ HasDnsSan(chan.net)) =>
        /\ chan.ok
        /\ chan.trust.fetches = 1
        /\ chan.trust.cfg.hostname_override = Some(FirstDnsSan(chan.net))
        /\ chan.trust.cfg.cadata =
               Some([bytes |-> <<PemHeader, NL, B64Encode(chan.net), NL, PemFooter, NL>>])
        /\ chan.opened[1].credentials.channel_credentials.root_certificates =
               chan.trust.cfg.cadata
        /\ Len(Handed) = Len(CallerBase) + 7
        /\ Handed[Len(CallerBase) + 1] = <<OverrideKey, StrV(FirstDnsSan(chan.net))>>

----------------------------------------------------------------------------
(* C6 *)

FetchFails == WellFormed(chan.address) /\ chan.net \in NetFailures

CertUnusable ==
    /\ WellFormed(chan.address)
    /\ chan.net \in LeafDers
    /\ ~HasDnsSan(chan.net)

----------------------------------------------------------------------------
(* C7 *)

\* C7: with do_verify_ssl=True, whatever the address and the state of the
\* endpoint, trust resolves to {cadata absent, hostname_override absent}
\* without a handshake and without parsing the address, and a handle is
\* returned; a call that fails because the host cannot be reached was made
\* with do_verify_ssl=False and failed in its certificate fetch.
C7_VerifiedNeedsNoNetwork ==
    /\ (Returned /\ chan.do_verify_ssl) =>
           /\ chan.ok
           /\ chan.handle # None
           /\ chan.trust.cfg = [cadata |-> None, hostname_override |-> None]
           /\ chan.trust.fetches = 0
           /\ ~chan.trust.parsed
           /\ chan.opened[1].target = chan.address
    /\ (Returned /\ ~chan.ok /\ chan.net \in NetFailures) =>
           /\ ~chan.do_verify_ssl
           /\ chan.trust.fetches = 1 \/ ~WellFormed(chan.address)

C7_Witness ==
    /\ Returned /\ chan.do_verify_ssl
    /\ chan.net = "nxdomain"
    /\ chan.address = "example.com"
    /\ chan.handle # None

----------------------------------------------------------------------------
(* C10 *)

\* C10 as stated: the handed list is the caller's options, then the
\* target-name-override entry if and only if trust resolution produced a
\* hostname override (an empty string counting as present), then
\* enable_retries=1, service_config, keepalive_time_ms=60000,
\* keepalive_timeout_ms=5000, keepalive_permit_without_calls=1 and
\* max_pings_without_data=0.
C10_OverrideIffPresent ==
    (Returned /\ chan.ok) =>
        LET ov == chan.trust.cfg.hostname_override
            n  == Len(CallerBase) + (IF ov # None THEN 1 ELSE 0)
        IN  /\ Len(Handed) = n + 6
            /\ SubSeq(Handed, 1, Len(CallerBase)) = CallerBase
            /\ ov # None => Handed[Len(CallerBase) + 1] = <<OverrideKey, StrV(ov[1])>>
            /\ Handed[n + 1] = <<"grpc.enable_retries", IntV(1)>>
            /\ Handed[n + 2][1] = "grpc.service_config"
            /\ Handed[n + 3] = <<"grpc.keepalive_time_ms", IntV(60000)>>
            /\ Handed[n + 4] = <<"grpc.keepalive_timeout_ms", IntV(5000)>>
            /\ Handed[n + 5] = <<"grpc.keepalive_permit_without_calls", IntV(1)>>
            /\ Handed[n + 6] = <<"grpc.http2.max_pings_without_data", IntV(0)>>

----------------------------------------------------------------------------
(* C8, under SpecTrust *)

ForcedLoad ==
    /\ sslResult.state = "returned"
    /\ sslResult.do_verify_ssl
    /\ sslResult.do_force_cadata_load

\* C8 as stated: whatever the platform trust store holds, do_verify_ssl=True
\* with do_force_cadata_load=True returns cadata that is present and
\* non-empty, with hostname_override absent.
C8_CadataNeverEmpty ==
    ForcedLoad =>
        /\ sslResult.result.ok
        /\ sslResult.result.cfg.cadata # None
        /\ Len(sslResult.result.cfg.cadata[1].bytes) > 0
        /\ sslResult.result.cfg.hostname_override = None

\* C8 amended: the returned cadata is present (not None) and is the PEM
\* blocks of the certificates loaded in the default context, in order,
\* joined by single newlines, with hostname_override absent; it is non-empty
\* exactly when at least one certificate is loaded, and empty bytes when the
\* trust store holds none.
C8_CadataIsJoinedStore ==
    ForcedLoad =>
        LET n    == Len(sslResult.store)
            data == sslResult.result.cfg.cadata
            txt  == data[1].bytes
        IN  /\ sslResult.result.ok
            /\ data # None
            /\ sslResult.result.cfg.hostname_override = None
            /\ sslResult.result.fetches = 0
            /\ Len(txt) = IF n = 0 THEN 0 ELSE 7 * n - 1
            /\ \A i \in 1..n :
                   SubSeq(txt, 7 * (i - 1) + 1, 7 * (i - 1) + 6) =
                       <<PemHeader, NL, B64Encode(sslResult.store[i]), NL, PemFooter, NL>>
            /\ \A i \in 1..(n - 1) : txt[7 * i] = NL

C8_Witness ==
    /\ ForcedLoad
    /\ sslResult.store = <<"ca2", "ca1">>
    /\ Len(sslResult.result.cfg.cadata[1].bytes) = 13

----------------------------------------------------------------------------
(* C1 and C2, under SpecCall *)

HandedPolicy == ChannelRetryPolicy(chan.handle[1].channel)

\* C1 as stated: the service config always encodes maxAttempts=5, no backoff
\* before the last attempt exceeds 30 s, and the last (5th) attempt starts at
\* least 25 s after the first.
C1_LastAttemptAfter25s ==
    /\ HandedPolicy.maxAttempts = 5
    /\ \A n \in 1..4 : Backoff(HandedPolicy, n) <= 300
    /\ (rpc.phase = "attempting" /\ rpc.attempt = 5) => rpc.elapsed >= 250

InterceptorKinds ==
    [i \in 1..Len(chan.handle[1].interceptors) |-> chan.handle[1].interceptors[i].kind]

ChainOrder ==
    InterceptorKinds = << "RequestIdInterceptor", "TrackingClientInterceptor",
                          "GRPCErrorClientInterceptor", "LogRpcCallsInterceptor" >>

FailedCall == rpc.phase = "done" /\ rpc.raw # "OK"

----------------------------------------------------------------------------
(* C9, under SpecCtx *)

\* C9: reset_to(name) with a name other than the current project name
\* leaves the project name at name and the default fabric, the pip packages
\* and the pip requirements file at None; with the current project name it
\* leaves all four as they were.
C9_ResetTo ==
    lastOp.op = "reset_to" =>
        LET name == lastOp.arg
            old  == lastOp.before
        IN  IF name # old.project_name
            THEN /\ ctx.project_name = name
                 /\ ctx.default_fabric = None
                 /\ ctx.pip_packages = None
                 /\ ctx.pip_requirements_file = None
            ELSE /\ ctx.project_name = old.project_name
                 /\ ctx.default_fabric = old.default_fabric
                 /\ ctx.pip_packages = old.pip_packages
                 /\ ctx.pip_requirements_file = old.pip_requirements_file

C9_Witness ==
    /\ lastOp.op = "reset_to"
    /\ lastOp.arg = lastOp.before.project_name
    /\ ctx.project_name = Some("test")
    /\ ctx.default_fabric = Some("F_SMALL")
    /\ ctx.pip_packages = Some(<<"numpy=1.22.2">>)
    /\ ctx.pip_requirements_file = Some("/path/to/requirements2.txt")

====
